---------------------------- MODULE Spec2Model ----------------------------
(***************************************************************************)
(* The Stormworks .mesh decoder of src/src/lib.rs: the blocking decoder    *)
(* build_stormworks_mesh (BufReader<File>) and the suspending decoder      *)
(* async_build_stormworks_mesh (Box<dyn Reader>), each run step by step    *)
(* (one step per read, skip or check) over the same file contents.         *)
(*                                                                         *)
(* Numbers.  A byte is 0..255, a u16 is 0..65535.  A u32 is kept at its    *)
(* full width as the pair of its 16-bit halves [hi, lo] (value             *)
(* hi * 65536 + lo): TLC's integers are 32-bit signed and cannot hold      *)
(* 2^32 - 1.  An f32 is kept as its 4 little-endian bytes (its bits).      *)
(***************************************************************************)
EXTENDS Integers, Sequences, FiniteSets

VARIABLES
    file,             \* the bytes of the .mesh file both decoders are given
    overflow_checks,  \* the build: TRUE when u32 `+` panics on overflow (dev
                      \* profile), FALSE when it wraps (release profile)
    sync,             \* build_stormworks_mesh: position, cursor, locals, result
    async,            \* async_build_stormworks_mesh: the same
    previous          \* the finished call of build_stormworks_mesh on the file
                      \* as it was before bytes were appended; Start when none

vars == <<file, overflow_checks, sync, async, previous>>

(***************************************************************************)
(* Bounds of the enumerated inputs.                                        *)
(***************************************************************************)
MaxVertices == 1
MaxIndices == 2
MaxSubMeshes == 2

(***************************************************************************)
(* Program constants.                                                      *)
(***************************************************************************)
BYTES_PER_COMPONENT == 4
ENTRIES_PER_VERTEX == 7
BYTES_PER_VERTEX == BYTES_PER_COMPONENT * ENTRIES_PER_VERTEX
MaxNameLength == 1000
Header2Bytes == 2
Header8Bytes == 4*3
SubMeshSkipBytes == 4*3 + 4*3 + 2
MeshMagic == <<109, 101, 115, 104>>

(***************************************************************************)
(* Fixed-width integers.                                                   *)
(***************************************************************************)
U16Modulus == 256 * 256

u16_from_le_bytes(b) == b[1] + 256 * b[2]

u32_from_le_bytes(b) == [lo |-> b[1] + 256 * b[2], hi |-> b[3] + 256 * b[4]]

\* `x as u32` of a u16: zero extension.
as_u32(x) == [lo |-> x, hi |-> 0]

u32_lt(a, b) == a.hi < b.hi \/ (a.hi = b.hi /\ a.lo < b.lo)

u32_gt(a, b) == u32_lt(b, a)

u32_ge(a, b) == ~u32_lt(a, b)

\* a + b on u32 overflows (exceeds 2^32 - 1).
u32_add_overflows(a, b) ==
    a.hi + b.hi + ((a.lo + b.lo) \div U16Modulus) >= U16Modulus

\* a + b modulo 2^32.
u32_wrapping_add(a, b) ==
    [lo |-> (a.lo + b.lo) % U16Modulus,
     hi |-> (a.hi + b.hi + ((a.lo + b.lo) \div U16Modulus)) % U16Modulus]

\* Mutant: an unknown shader value falls back to Opaque.
from_u16_default(i) ==
    CASE i = 1 -> [ok |-> TRUE, value |-> "Transparent"]
      [] i = 2 -> [ok |-> TRUE, value |-> "Emissive"]
      [] i = 3 -> [ok |-> TRUE, value |-> "Lava"]
      [] OTHER -> [ok |-> TRUE, value |-> "Opaque"]

(***************************************************************************)
(* StormworksShaderType::from_u16.                                         *)
(***************************************************************************)
from_u16(i) ==
    CASE i = 0 -> [ok |-> TRUE, value |-> "Opaque"]
      [] i = 1 -> [ok |-> TRUE, value |-> "Transparent"]
      [] i = 2 -> [ok |-> TRUE, value |-> "Emissive"]
      [] i = 3 -> [ok |-> TRUE, value |-> "Lava"]
      [] OTHER -> [ok |-> FALSE, value |-> i]

(***************************************************************************)
(* String::from_utf8: whether the bytes are well-formed UTF-8.  A byte     *)
(* 10xxxxxx is a continuation byte; any other byte starts a sequence whose *)
(* width and second-byte range its value fixes.  The bytes are valid when  *)
(* every sequence start is well formed and every continuation byte lies    *)
(* inside the sequence of the nearest start before it.                     *)
(***************************************************************************)
utf8_is_cont(b) == b \in 128..191

utf8_cont_at(s, i) == i <= Len(s) /\ utf8_is_cont(s[i])

utf8_in_at(s, i, lo, hi) == i <= Len(s) /\ s[i] \in lo..hi

\* Width of the well-formed sequence starting at s[i], 0 when there is none.
utf8_char_width(s, i) ==
    LET b == s[i] IN
    CASE b <= 127 -> 1
      [] b \in 194..223 -> IF utf8_cont_at(s, i+1) THEN 2 ELSE 0
      [] b = 224 ->
           IF utf8_in_at(s, i+1, 160, 191) /\ utf8_cont_at(s, i+2) THEN 3 ELSE 0
      [] b \in 225..236 \/ b \in 238..239 ->
           IF utf8_cont_at(s, i+1) /\ utf8_cont_at(s, i+2) THEN 3 ELSE 0
      [] b = 237 ->
           IF utf8_in_at(s, i+1, 128, 159) /\ utf8_cont_at(s, i+2) THEN 3 ELSE 0
      [] b = 240 ->
           IF utf8_in_at(s, i+1, 144, 191) /\ utf8_cont_at(s, i+2)
              /\ utf8_cont_at(s, i+3) THEN 4 ELSE 0
      [] b \in 241..243 ->
           IF utf8_cont_at(s, i+1) /\ utf8_cont_at(s, i+2)
              /\ utf8_cont_at(s, i+3) THEN 4 ELSE 0
      [] b = 244 ->
           IF utf8_in_at(s, i+1, 128, 143) /\ utf8_cont_at(s, i+2)
              /\ utf8_cont_at(s, i+3) THEN 4 ELSE 0
      [] OTHER -> 0

\* Mutant: a conversion that never fails, as String::from_utf8_lossy.
from_utf8_lossy_ok(s) == TRUE

from_utf8_ok(s) ==
    \A i \in 1..Len(s) :
        IF utf8_is_cont(s[i])
        THEN \E j \in 1..(i-1) :
                /\ i - j <= 3
                /\ ~utf8_is_cont(s[j])
                /\ \A k \in (j+1)..(i-1) : utf8_is_cont(s[k])
                /\ i - j < utf8_char_width(s, j)
        ELSE utf8_char_width(s, i) > 0

(***************************************************************************)
(* Outcomes.  A decode ends with Ok(mesh), Err(NotMesh),                   *)
(* Err(CorruptFile(cause)), or, in a build with overflow checks, a panic.  *)
(***************************************************************************)
Pending == [kind |-> "Pending"]
Ok(mesh) == [kind |-> "Ok", mesh |-> mesh]
NotMesh == [kind |-> "NotMesh"]
CorruptFile(cause) == [kind |-> "CorruptFile", cause |-> cause]
Panic == [kind |-> "Panic"]

IoError == [type |-> "io::Error"]
FromUtf8Error == [type |-> "FromUtf8Error"]
TooBigNameLength == [type |-> "TooBigNameLength"]
InvalidStormworksShaderType(raw) ==
    [type |-> "InvalidStormworksShaderType", raw |-> raw]
IndexIndexOutOfBounds(i, vertex_count) ==
    [type |-> "IndexIndexOutOfBounds", index |-> i, vertex_count |-> vertex_count]
SubMeshIndexOutOfBounds(i, index, bound) ==
    [type |-> "SubMeshIndexOutOfBounds", submesh_id |-> i, index |-> index,
     relevant_bound |-> bound]

\* `?` on an Err inside build_stormworks_mesh: the cause is boxed and wrapped.
Fail(st, cause) == [st EXCEPT !.pc = "done", !.result = CorruptFile(cause)]

U32Zero == [lo |-> 0, hi |-> 0]
U32One == [lo |-> 1, hi |-> 0]

\* A decoder before its first step.
Start ==
    [pc |-> "magic", cursor |-> 0, ops |-> <<>>, i |-> U32Zero,
     vertex_count |-> U32Zero, vertices |-> <<>>,
     index_count |-> U32Zero, indices |-> <<>>,
     sub_mesh_count |-> U32Zero, sub_meshes |-> <<>>,
     index_buffer_start |-> U32Zero, index_buffer_length |-> U32Zero,
     shader_id |-> "Opaque", name_length_bytes |-> 0, name |-> <<>>,
     result |-> Pending]

\* The locals of one build_sub_mesh call, cleared when the call returns.
ClearSubMesh(st) ==
    [st EXCEPT !.index_buffer_start = U32Zero, !.index_buffer_length = U32Zero,
               !.shader_id = "Opaque", !.name_length_bytes = 0, !.name = <<>>]

(***************************************************************************)
(* The stream of the blocking decoder, BufReader<File>.                    *)
(***************************************************************************)
\* Read::read_exact of n bytes at `cursor`: all n bytes or UnexpectedEof, in
\* which case what was left of the file has been consumed.
read_exact(cursor, n) ==
    IF n = 0 \/ cursor + n <= Len(file)
    THEN [ok |-> TRUE, bytes |-> SubSeq(file, cursor + 1, cursor + n),
          cursor |-> cursor + n]
    ELSE [ok |-> FALSE, bytes |-> <<>>,
          cursor |-> IF cursor < Len(file) THEN Len(file) ELSE cursor]

read_u16_from(cursor) ==
    LET r == read_exact(cursor, 2) IN
    [ok |-> r.ok, value |-> IF r.ok THEN u16_from_le_bytes(r.bytes) ELSE 0,
     cursor |-> r.cursor]

read_u32_from(cursor) ==
    LET r == read_exact(cursor, 4) IN
    [ok |-> r.ok, value |-> IF r.ok THEN u32_from_le_bytes(r.bytes) ELSE U32Zero,
     cursor |-> r.cursor]

\* Seek::seek(SeekFrom::Current(n)) on BufReader<File>: the buffer is dropped
\* and the file offset moved; a file offset may lie beyond the end of the file,
\* so the call succeeds however few bytes remain.
seek(cursor, n) == [ok |-> TRUE, cursor |-> cursor + n]

\* build_vertex_record's slicing of the 28 bytes of one vertex record.
vertex_record(b) ==
    [position |-> <<SubSeq(b, 1, 4), SubSeq(b, 5, 8), SubSeq(b, 9, 12)>>,
     color |-> <<b[13], b[14], b[15], b[16]>>,
     normal |-> <<SubSeq(b, 17, 20), SubSeq(b, 21, 24), SubSeq(b, 25, 28)>>]

Read(st, r, n) == [st EXCEPT !.cursor = r.cursor, !.ops = Append(@, <<"read", n>>)]
Skip(st, r, n) == [st EXCEPT !.cursor = r.cursor, !.ops = Append(@, <<"seek", n>>)]


(***************************************************************************)
(* build_stormworks_mesh, the blocking decoder.                            *)
(***************************************************************************)
SyncStep(st) == sync' = st /\ UNCHANGED <<file, overflow_checks, async, previous>>

\* Mutant: only the first three bytes of the marker are compared.
filetypemarker_is_mesh_prefix(filetypemarker) ==
    SubSeq(filetypemarker, 1, 3) = SubSeq(MeshMagic, 1, 3)

\* filetypemarker != *b"mesh", negated.
filetypemarker_is_mesh(filetypemarker) == filetypemarker = MeshMagic

\* The file type marker: 4 bytes that must be "mesh".
build_stormworks_mesh_magic ==
    /\ sync.pc = "magic"
    /\ LET r == read_exact(sync.cursor, 4)
           st == Read(sync, r, 4)
       IN SyncStep(IF ~r.ok THEN Fail(st, IoError)
                   ELSE IF ~filetypemarker_is_mesh(r.bytes)
                        THEN [st EXCEPT !.pc = "done", !.result = NotMesh]
                        ELSE [st EXCEPT !.pc = "header0"])

\* header0 and header1: 4 bytes skipped.
build_stormworks_mesh_header0 ==
    /\ sync.pc = "header0"
    /\ LET r == seek(sync.cursor, 4)
           st == Skip(sync, r, 4)
       IN SyncStep(IF ~r.ok THEN Fail(st, IoError)
                   ELSE [st EXCEPT !.pc = "vertex_count"])

build_stormworks_mesh_vertex_count ==
    /\ sync.pc = "vertex_count"
    /\ LET r == read_u16_from(sync.cursor)
           st == Read(sync, r, 2)
       IN SyncStep(IF ~r.ok THEN Fail(st, IoError)
                   ELSE [st EXCEPT !.pc = "header3",
                                   !.vertex_count = as_u32(r.value)])

\* header3 and header4: 4 bytes skipped; build_vertices starts.
build_stormworks_mesh_header3 ==
    /\ sync.pc = "header3"
    /\ LET r == seek(sync.cursor, 4)
           st == Skip(sync, r, 4)
       IN SyncStep(IF ~r.ok THEN Fail(st, IoError)
                   ELSE [st EXCEPT !.pc = "vertices", !.i = U32Zero])

\* Mutant: the loop runs over 0..=vertex_count.
build_vertices_inclusive ==
    /\ sync.pc = "vertices"
    /\ ~u32_gt(sync.i, sync.vertex_count)
    /\ LET r == read_exact(sync.cursor, BYTES_PER_VERTEX)
           st == Read(sync, r, BYTES_PER_VERTEX)
       IN SyncStep(IF ~r.ok THEN Fail(st, IoError)
                   ELSE [st EXCEPT !.vertices = Append(@, vertex_record(r.bytes)),
                                   !.i = u32_wrapping_add(@, U32One)])

\* One iteration of build_vertices: build_vertex_record and push.
build_vertices ==
    /\ sync.pc = "vertices"
    /\ u32_lt(sync.i, sync.vertex_count)
    /\ LET r == read_exact(sync.cursor, BYTES_PER_VERTEX)
           st == Read(sync, r, BYTES_PER_VERTEX)
       IN SyncStep(IF ~r.ok THEN Fail(st, IoError)
                   ELSE [st EXCEPT !.vertices = Append(@, vertex_record(r.bytes)),
                                   !.i = u32_wrapping_add(@, U32One)])

\* build_vertices has returned; index_count is read and build_indices starts.
build_stormworks_mesh_index_count ==
    /\ sync.pc = "vertices"
    /\ ~u32_lt(sync.i, sync.vertex_count)
    /\ LET r == read_u32_from(sync.cursor)
           st == Read(sync, r, 4)
       IN SyncStep(IF ~r.ok THEN Fail(st, IoError)
                   ELSE [st EXCEPT !.pc = "indices", !.index_count = r.value,
                                   !.i = U32Zero])

\* Mutant: an index equal to vertex_count is let through.
build_indices_rejects_above(index, vertex_count) == u32_gt(index, vertex_count)

\* build_indices rejects the index just read.
build_indices_rejects(index, vertex_count) == u32_ge(index, vertex_count)

\* Mutant: the error carries the index read, not its position.
build_indices_error_value(i, index, vertex_count) ==
    IndexIndexOutOfBounds(index, vertex_count)

\* The error build_indices returns for index number i.
build_indices_error(i, index, vertex_count) ==
    IndexIndexOutOfBounds(i, vertex_count)

\* One iteration of build_indices.
build_indices ==
    /\ sync.pc = "indices"
    /\ u32_lt(sync.i, sync.index_count)
    /\ LET r == read_u16_from(sync.cursor)
           st == Read(sync, r, 2)
           index == as_u32(r.value)
       IN SyncStep(IF ~r.ok THEN Fail(st, IoError)
                   ELSE IF build_indices_rejects(index, sync.vertex_count)
                        THEN Fail(st, build_indices_error(sync.i, index,
                                                             sync.vertex_count))
                        ELSE [st EXCEPT !.indices = Append(@, index),
                                        !.i = u32_wrapping_add(@, U32One)])

\* build_indices has returned; sub_mesh_count is read and build_sub_meshes starts.
build_stormworks_mesh_sub_mesh_count ==
    /\ sync.pc = "indices"
    /\ ~u32_lt(sync.i, sync.index_count)
    /\ LET r == read_u16_from(sync.cursor)
           st == Read(sync, r, 2)
       IN SyncStep(IF ~r.ok THEN Fail(st, IoError)
                   ELSE [st EXCEPT !.pc = "sub_meshes",
                                   !.sub_mesh_count = as_u32(r.value),
                                   !.i = U32Zero])

\* build_sub_mesh is called for sub-mesh i and reads index_buffer_start.
build_sub_mesh_index_buffer_start ==
    /\ sync.pc = "sub_meshes"
    /\ u32_lt(sync.i, sync.sub_mesh_count)
    /\ LET r == read_u32_from(sync.cursor)
           st == Read(sync, r, 4)
       IN SyncStep(IF ~r.ok THEN Fail(st, IoError)
                   ELSE [st EXCEPT !.pc = "index_buffer_length",
                                   !.index_buffer_start = r.value])

\* Mutant: the second field is taken as the end of the range and the length
\* derived from it, end - start.
build_sub_mesh_index_buffer_length_from_end ==
    /\ sync.pc = "index_buffer_length"
    /\ LET r == read_u32_from(sync.cursor)
           st == Read(sync, r, 4)
           start == sync.index_buffer_start
           borrow == IF r.value.lo < start.lo THEN 1 ELSE 0
           length == [lo |-> (U16Modulus + r.value.lo - start.lo) % U16Modulus,
                      hi |-> (2 * U16Modulus + r.value.hi - start.hi - borrow)
                                % U16Modulus]
       IN SyncStep(IF ~r.ok THEN Fail(st, IoError)
                   ELSE [st EXCEPT !.pc = "header2",
                                   !.index_buffer_length = length])

build_sub_mesh_index_buffer_length ==
    /\ sync.pc = "index_buffer_length"
    /\ LET r == read_u32_from(sync.cursor)
           st == Read(sync, r, 4)
       IN SyncStep(IF ~r.ok THEN Fail(st, IoError)
                   ELSE [st EXCEPT !.pc = "header2",
                                   !.index_buffer_length = r.value])

\* Header 2: 2 bytes skipped.
build_sub_mesh_header2 ==
    /\ sync.pc = "header2"
    /\ LET r == seek(sync.cursor, Header2Bytes)
           st == Skip(sync, r, Header2Bytes)
       IN SyncStep(IF ~r.ok THEN Fail(st, IoError)
                   ELSE [st EXCEPT !.pc = "shader_id"])

build_sub_mesh_shader_id ==
    /\ sync.pc = "shader_id"
    /\ LET r == read_u16_from(sync.cursor)
           st == Read(sync, r, 2)
           shader == from_u16(r.value)
       IN SyncStep(IF ~r.ok THEN Fail(st, IoError)
                   ELSE IF ~shader.ok
                        THEN Fail(st, InvalidStormworksShaderType(shader.value))
                        ELSE [st EXCEPT !.pc = "skip26",
                                        !.shader_id = shader.value])

\* 4*3+4*3+2 bytes skipped.
build_sub_mesh_skip26 ==
    /\ sync.pc = "skip26"
    /\ LET r == seek(sync.cursor, SubMeshSkipBytes)
           st == Skip(sync, r, SubMeshSkipBytes)
       IN SyncStep(IF ~r.ok THEN Fail(st, IoError)
                   ELSE [st EXCEPT !.pc = "name_length_bytes"])

\* Mutant: the greatest length is refused too.
name_length_too_big_inclusive(name_length_bytes) ==
    name_length_bytes >= MaxNameLength

\* build_sub_mesh refuses the declared name length.
name_length_too_big(name_length_bytes) == name_length_bytes > MaxNameLength

build_sub_mesh_name_length_bytes ==
    /\ sync.pc = "name_length_bytes"
    /\ LET r == read_u16_from(sync.cursor)
           st == Read(sync, r, 2)
       IN SyncStep(IF ~r.ok THEN Fail(st, IoError)
                   ELSE IF name_length_too_big(r.value)
                        THEN Fail(st, TooBigNameLength)
                        ELSE [st EXCEPT !.pc = "name",
                                        !.name_length_bytes = r.value])

\* name_buf of name_length_bytes zeroes is filled from the stream and decoded.
build_sub_mesh_name ==
    /\ sync.pc = "name"
    /\ LET r == read_exact(sync.cursor, sync.name_length_bytes)
           st == Read(sync, r, sync.name_length_bytes)
       IN SyncStep(IF ~r.ok THEN Fail(st, IoError)
                   ELSE IF ~from_utf8_ok(r.bytes)
                        THEN Fail(st, FromUtf8Error)
                        ELSE [st EXCEPT !.pc = "header8", !.name = r.bytes])

\* Mutant: the start of the range is checked before the 12 trailing bytes of
\* the record are skipped.
build_sub_mesh_header8_after_check ==
    /\ sync.pc = "header8"
    /\ LET r == seek(sync.cursor, Header8Bytes)
           st == Skip(sync, r, Header8Bytes)
       IN SyncStep(IF u32_gt(sync.index_buffer_start, sync.index_count)
                   THEN Fail(sync, SubMeshIndexOutOfBounds(
                                       sync.i, sync.index_buffer_start,
                                       sync.index_count))
                   ELSE IF ~r.ok THEN Fail(st, IoError)
                   ELSE [st EXCEPT !.pc = "range_check"])

\* Header 8: 4*3 bytes skipped; build_sub_mesh returns the record.
build_sub_mesh_header8 ==
    /\ sync.pc = "header8"
    /\ LET r == seek(sync.cursor, Header8Bytes)
           st == Skip(sync, r, Header8Bytes)
       IN SyncStep(IF ~r.ok THEN Fail(st, IoError)
                   ELSE [st EXCEPT !.pc = "range_check"])

\* The two range checks of build_sub_meshes on sub-mesh i.  The sum is a u32
\* `+`: it panics on overflow in a build with overflow checks and wraps in one
\* without.
build_sub_meshes_check(i, start, length, index_count) ==
    IF u32_gt(start, index_count)
    THEN [outcome |-> "Err",
          cause |-> SubMeshIndexOutOfBounds(i, start, index_count)]
    ELSE IF overflow_checks /\ u32_add_overflows(start, length)
    THEN [outcome |-> "Panic"]
    ELSE IF u32_gt(u32_wrapping_add(start, length), index_count)
    THEN [outcome |-> "Err",
          cause |-> SubMeshIndexOutOfBounds(i, u32_wrapping_add(start, length),
                                            index_count)]
    ELSE [outcome |-> "Ok"]

\* The rest of one iteration of build_sub_meshes: range checks and push.
build_sub_meshes ==
    /\ sync.pc = "range_check"
    /\ LET c == build_sub_meshes_check(sync.i, sync.index_buffer_start,
                                       sync.index_buffer_length, sync.index_count)
           sub_mesh == [index_buffer_start |-> sync.index_buffer_start,
                        index_buffer_length |-> sync.index_buffer_length,
                        shader_id |-> sync.shader_id,
                        name_length_bytes |-> sync.name_length_bytes,
                        name |-> sync.name]
       IN SyncStep(CASE c.outcome = "Err" -> Fail(sync, c.cause)
                     [] c.outcome = "Panic" ->
                          [sync EXCEPT !.pc = "done", !.result = Panic]
                     [] OTHER ->
                          [ClearSubMesh(sync) EXCEPT
                              !.pc = "sub_meshes",
                              !.sub_meshes = Append(@, sub_mesh),
                              !.i = u32_wrapping_add(@, U32One)])

\* Mutant: after the last record the stream must be at its end.
build_stormworks_mesh_return_at_eof ==
    /\ sync.pc = "sub_meshes"
    /\ ~u32_lt(sync.i, sync.sub_mesh_count)
    /\ SyncStep(IF sync.cursor < Len(file) THEN Fail(sync, IoError)
                ELSE [sync EXCEPT
          !.pc = "done",
          !.result = Ok([vertex_count |-> sync.vertex_count,
                         vertices |-> sync.vertices,
                         index_count |-> sync.index_count,
                         indices |-> sync.indices,
                         sub_mesh_count |-> sync.sub_mesh_count,
                         sub_meshes |-> sync.sub_meshes])])

\* build_sub_meshes has returned: the StormworksMesh is assembled and returned.
build_stormworks_mesh_return ==
    /\ sync.pc = "sub_meshes"
    /\ ~u32_lt(sync.i, sync.sub_mesh_count)
    /\ SyncStep([sync EXCEPT
          !.pc = "done",
          !.result = Ok([vertex_count |-> sync.vertex_count,
                         vertices |-> sync.vertices,
                         index_count |-> sync.index_count,
                         indices |-> sync.indices,
                         sub_mesh_count |-> sync.sub_mesh_count,
                         sub_meshes |-> sync.sub_meshes])])

build_stormworks_mesh ==
    \/ build_stormworks_mesh_magic
    \/ build_stormworks_mesh_header0
    \/ build_stormworks_mesh_vertex_count
    \/ build_stormworks_mesh_header3
    \/ build_vertices
    \/ build_stormworks_mesh_index_count
    \/ build_indices
    \/ build_stormworks_mesh_sub_mesh_count
    \/ build_sub_mesh_index_buffer_start
    \/ build_sub_mesh_index_buffer_length
    \/ build_sub_mesh_header2
    \/ build_sub_mesh_shader_id
    \/ build_sub_mesh_skip26
    \/ build_sub_mesh_name_length_bytes
    \/ build_sub_mesh_name
    \/ build_sub_mesh_header8
    \/ build_sub_meshes
    \/ build_stormworks_mesh_return

(***************************************************************************)
(* The stream of the suspending decoder, Box<dyn Reader>.                  *)
(***************************************************************************)
\* AsyncReadExt::read_exact of n bytes at `cursor`: all n bytes or
\* UnexpectedEof, what was left of the stream having been consumed.
async_read_exact(cursor, n) ==
    IF n = 0 \/ cursor + n <= Len(file)
    THEN [ok |-> TRUE, bytes |-> SubSeq(file, cursor + 1, cursor + n),
          cursor |-> cursor + n]
    ELSE [ok |-> FALSE, bytes |-> <<>>,
          cursor |-> IF cursor < Len(file) THEN Len(file) ELSE cursor]

async_read_u16_from(cursor) ==
    LET r == async_read_exact(cursor, 2) IN
    [ok |-> r.ok, value |-> IF r.ok THEN u16_from_le_bytes(r.bytes) ELSE 0,
     cursor |-> r.cursor]

async_read_u32_from(cursor) ==
    LET r == async_read_exact(cursor, 4) IN
    [ok |-> r.ok, value |-> IF r.ok THEN u32_from_le_bytes(r.bytes) ELSE U32Zero,
     cursor |-> r.cursor]

\* Mutant: a reader that refuses to move past the end of its bytes.
seek_forward_checked(cursor, n) ==
    IF cursor + n <= Len(file)
    THEN [ok |-> TRUE, cursor |-> cursor + n]
    ELSE [ok |-> FALSE, cursor |-> cursor]

\* AsyncSeekForwardExt::seek_forward(n): the readers of bevy_asset (VecReader,
\* SliceReader, the file readers) add n to the position without looking at the
\* length, so the call succeeds however few bytes remain.
seek_forward(cursor, n) == [ok |-> TRUE, cursor |-> cursor + n]

(***************************************************************************)
(* async_build_stormworks_mesh, the suspending decoder.                    *)
(***************************************************************************)
AsyncStep(st) == async' = st /\ UNCHANGED <<file, overflow_checks, sync, previous>>

\* filetypemarker != *b"mesh", negated.
async_filetypemarker_is_mesh(filetypemarker) == filetypemarker = MeshMagic

\* The file type marker: 4 bytes that must be "mesh".
async_build_stormworks_mesh_magic ==
    /\ async.pc = "magic"
    /\ LET r == async_read_exact(async.cursor, 4)
           st == Read(async, r, 4)
       IN AsyncStep(IF ~r.ok THEN Fail(st, IoError)
                   ELSE IF ~async_filetypemarker_is_mesh(r.bytes)
                        THEN [st EXCEPT !.pc = "done", !.result = NotMesh]
                        ELSE [st EXCEPT !.pc = "header0"])

\* header0 and header1: 4 bytes skipped.
async_build_stormworks_mesh_header0 ==
    /\ async.pc = "header0"
    /\ LET r == seek_forward(async.cursor, 4)
           st == Skip(async, r, 4)
       IN AsyncStep(IF ~r.ok THEN Fail(st, IoError)
                   ELSE [st EXCEPT !.pc = "vertex_count"])

async_build_stormworks_mesh_vertex_count ==
    /\ async.pc = "vertex_count"
    /\ LET r == async_read_u16_from(async.cursor)
           st == Read(async, r, 2)
       IN AsyncStep(IF ~r.ok THEN Fail(st, IoError)
                   ELSE [st EXCEPT !.pc = "header3",
                                   !.vertex_count = as_u32(r.value)])

\* header3 and header4: 4 bytes skipped; async_build_vertices starts.
async_build_stormworks_mesh_header3 ==
    /\ async.pc = "header3"
    /\ LET r == seek_forward(async.cursor, 4)
           st == Skip(async, r, 4)
       IN AsyncStep(IF ~r.ok THEN Fail(st, IoError)
                   ELSE [st EXCEPT !.pc = "vertices", !.i = U32Zero])

\* One iteration of async_build_vertices: build_vertex_record and push.
async_build_vertices ==
    /\ async.pc = "vertices"
    /\ u32_lt(async.i, async.vertex_count)
    /\ LET r == async_read_exact(async.cursor, BYTES_PER_VERTEX)
           st == Read(async, r, BYTES_PER_VERTEX)
       IN AsyncStep(IF ~r.ok THEN Fail(st, IoError)
                   ELSE [st EXCEPT !.vertices = Append(@, vertex_record(r.bytes)),
                                   !.i = u32_wrapping_add(@, U32One)])

\* async_build_vertices has returned; index_count is read and async_build_indices starts.
async_build_stormworks_mesh_index_count ==
    /\ async.pc = "vertices"
    /\ ~u32_lt(async.i, async.vertex_count)
    /\ LET r == async_read_u32_from(async.cursor)
           st == Read(async, r, 4)
       IN AsyncStep(IF ~r.ok THEN Fail(st, IoError)
                   ELSE [st EXCEPT !.pc = "indices", !.index_count = r.value,
                                   !.i = U32Zero])

\* async_build_indices rejects the index just read.
async_build_indices_rejects(index, vertex_count) == u32_ge(index, vertex_count)

\* The error async_build_indices returns for index number i.
async_build_indices_error(i, index, vertex_count) ==
    IndexIndexOutOfBounds(i, vertex_count)

\* One iteration of async_build_indices.
async_build_indices ==
    /\ async.pc = "indices"
    /\ u32_lt(async.i, async.index_count)
    /\ LET r == async_read_u16_from(async.cursor)
           st == Read(async, r, 2)
           index == as_u32(r.value)
       IN AsyncStep(IF ~r.ok THEN Fail(st, IoError)
                   ELSE IF async_build_indices_rejects(index, async.vertex_count)
                        THEN Fail(st, async_build_indices_error(async.i, index,
                                                                   async.vertex_count))
                        ELSE [st EXCEPT !.indices = Append(@, index),
                                        !.i = u32_wrapping_add(@, U32One)])

\* async_build_indices has returned; sub_mesh_count is read and async_build_sub_meshes starts.
async_build_stormworks_mesh_sub_mesh_count ==
    /\ async.pc = "indices"
    /\ ~u32_lt(async.i, async.index_count)
    /\ LET r == async_read_u16_from(async.cursor)
           st == Read(async, r, 2)
       IN AsyncStep(IF ~r.ok THEN Fail(st, IoError)
                   ELSE [st EXCEPT !.pc = "sub_meshes",
                                   !.sub_mesh_count = as_u32(r.value),
                                   !.i = U32Zero])

\* async_build_sub_mesh is called for sub-mesh i and reads index_buffer_start.
async_build_sub_mesh_index_buffer_start ==
    /\ async.pc = "sub_meshes"
    /\ u32_lt(async.i, async.sub_mesh_count)
    /\ LET r == async_read_u32_from(async.cursor)
           st == Read(async, r, 4)
       IN AsyncStep(IF ~r.ok THEN Fail(st, IoError)
                   ELSE [st EXCEPT !.pc = "index_buffer_length",
                                   !.index_buffer_start = r.value])

async_build_sub_mesh_index_buffer_length ==
    /\ async.pc = "index_buffer_length"
    /\ LET r == async_read_u32_from(async.cursor)
           st == Read(async, r, 4)
       IN AsyncStep(IF ~r.ok THEN Fail(st, IoError)
                   ELSE [st EXCEPT !.pc = "header2",
                                   !.index_buffer_length = r.value])

\* Header 2: 2 bytes skipped.
async_build_sub_mesh_header2 ==
    /\ async.pc = "header2"
    /\ LET r == seek_forward(async.cursor, Header2Bytes)
           st == Skip(async, r, Header2Bytes)
       IN AsyncStep(IF ~r.ok THEN Fail(st, IoError)
                   ELSE [st EXCEPT !.pc = "shader_id"])

async_build_sub_mesh_shader_id ==
    /\ async.pc = "shader_id"
    /\ LET r == async_read_u16_from(async.cursor)
           st == Read(async, r, 2)
           shader == from_u16(r.value)
       IN AsyncStep(IF ~r.ok THEN Fail(st, IoError)
                   ELSE IF ~shader.ok
                        THEN Fail(st, InvalidStormworksShaderType(shader.value))
                        ELSE [st EXCEPT !.pc = "skip26",
                                        !.shader_id = shader.value])

\* 4*3+4*3+2 bytes skipped.
async_build_sub_mesh_skip26 ==
    /\ async.pc = "skip26"
    /\ LET r == seek_forward(async.cursor, SubMeshSkipBytes)
           st == Skip(async, r, SubMeshSkipBytes)
       IN AsyncStep(IF ~r.ok THEN Fail(st, IoError)
                   ELSE [st EXCEPT !.pc = "name_length_bytes"])

\* async_build_sub_mesh refuses the declared name length.
async_name_length_too_big(name_length_bytes) == name_length_bytes > MaxNameLength

async_build_sub_mesh_name_length_bytes ==
    /\ async.pc = "name_length_bytes"
    /\ LET r == async_read_u16_from(async.cursor)
           st == Read(async, r, 2)
       IN AsyncStep(IF ~r.ok THEN Fail(st, IoError)
                   ELSE IF async_name_length_too_big(r.value)
                        THEN Fail(st, TooBigNameLength)
                        ELSE [st EXCEPT !.pc = "name",
                                        !.name_length_bytes = r.value])

\* name_buf of name_length_bytes zeroes is filled from the stream and decoded.
async_build_sub_mesh_name ==
    /\ async.pc = "name"
    /\ LET r == async_read_exact(async.cursor, async.name_length_bytes)
           st == Read(async, r, async.name_length_bytes)
       IN AsyncStep(IF ~r.ok THEN Fail(st, IoError)
                   ELSE IF ~from_utf8_ok(r.bytes)
                        THEN Fail(st, FromUtf8Error)
                        ELSE [st EXCEPT !.pc = "header8", !.name = r.bytes])

\* Header 8: 4*3 bytes skipped; async_build_sub_mesh returns the record.
async_build_sub_mesh_header8 ==
    /\ async.pc = "header8"
    /\ LET r == seek_forward(async.cursor, Header8Bytes)
           st == Skip(async, r, Header8Bytes)
       IN AsyncStep(IF ~r.ok THEN Fail(st, IoError)
                   ELSE [st EXCEPT !.pc = "range_check"])

\* The two range checks of async_build_sub_meshes on sub-mesh i.  The sum is a u32
\* `+`: it panics on overflow in a build with overflow checks and wraps in one
\* without.
async_build_sub_meshes_check(i, start, length, index_count) ==
    IF u32_gt(start, index_count)
    THEN [outcome |-> "Err",
          cause |-> SubMeshIndexOutOfBounds(i, start, index_count)]
    ELSE IF overflow_checks /\ u32_add_overflows(start, length)
    THEN [outcome |-> "Panic"]
    ELSE IF u32_gt(u32_wrapping_add(start, length), index_count)
    THEN [outcome |-> "Err",
          cause |-> SubMeshIndexOutOfBounds(i, u32_wrapping_add(start, length),
                                            index_count)]
    ELSE [outcome |-> "Ok"]

\* The rest of one iteration of async_build_sub_meshes: range checks and push.
async_build_sub_meshes ==
    /\ async.pc = "range_check"
    /\ LET c == async_build_sub_meshes_check(async.i, async.index_buffer_start,
                                       async.index_buffer_length, async.index_count)
           sub_mesh == [index_buffer_start |-> async.index_buffer_start,
                        index_buffer_length |-> async.index_buffer_length,
                        shader_id |-> async.shader_id,
                        name_length_bytes |-> async.name_length_bytes,
                        name |-> async.name]
       IN AsyncStep(CASE c.outcome = "Err" -> Fail(async, c.cause)
                     [] c.outcome = "Panic" ->
                          [async EXCEPT !.pc = "done", !.result = Panic]
                     [] OTHER ->
                          [ClearSubMesh(async) EXCEPT
                              !.pc = "sub_meshes",
                              !.sub_meshes = Append(@, sub_mesh),
                              !.i = u32_wrapping_add(@, U32One)])

\* async_build_sub_meshes has returned: the StormworksMesh is assembled and returned.
async_build_stormworks_mesh_return ==
    /\ async.pc = "sub_meshes"
    /\ ~u32_lt(async.i, async.sub_mesh_count)
    /\ AsyncStep([async EXCEPT
          !.pc = "done",
          !.result = Ok([vertex_count |-> async.vertex_count,
                         vertices |-> async.vertices,
                         index_count |-> async.index_count,
                         indices |-> async.indices,
                         sub_mesh_count |-> async.sub_mesh_count,
                         sub_meshes |-> async.sub_meshes])])

async_build_stormworks_mesh ==
    \/ async_build_stormworks_mesh_magic
    \/ async_build_stormworks_mesh_header0
    \/ async_build_stormworks_mesh_vertex_count
    \/ async_build_stormworks_mesh_header3
    \/ async_build_vertices
    \/ async_build_stormworks_mesh_index_count
    \/ async_build_indices
    \/ async_build_stormworks_mesh_sub_mesh_count
    \/ async_build_sub_mesh_index_buffer_start
    \/ async_build_sub_mesh_index_buffer_length
    \/ async_build_sub_mesh_header2
    \/ async_build_sub_mesh_shader_id
    \/ async_build_sub_mesh_skip26
    \/ async_build_sub_mesh_name_length_bytes
    \/ async_build_sub_mesh_name
    \/ async_build_sub_mesh_header8
    \/ async_build_sub_meshes
    \/ async_build_stormworks_mesh_return


(***************************************************************************)
(* The files decoded.  A file is laid out from its fields; the reserved    *)
(* regions hold a filler byte.                                             *)
(***************************************************************************)
U32(n) == [lo |-> n % U16Modulus, hi |-> n \div U16Modulus]

U32Max == [lo |-> U16Modulus - 1, hi |-> U16Modulus - 1]

le16(x) == <<x % 256, x \div 256>>

le32(v) == le16(v.lo) \o le16(v.hi)

Filler(n) == [k \in 1..n |-> 170]

VertexBytes(n) == [p \in 1..(BYTES_PER_VERTEX * n) |-> p % 256]

IndexBytes(idxs) ==
    [p \in 1..(2 * Len(idxs)) |-> le16(idxs[(p + 1) \div 2])[((p - 1) % 2) + 1]]

SubMeshBytes(r) ==
    le32(r.start) \o le32(r.length) \o Filler(Header2Bytes) \o le16(r.shader)
    \o Filler(SubMeshSkipBytes) \o le16(r.name_length) \o r.name
    \o Filler(Header8Bytes)

RECURSIVE SubMeshesBytes(_)
SubMeshesBytes(recs) ==
    IF recs = <<>> THEN <<>>
    ELSE SubMeshBytes(Head(recs)) \o SubMeshesBytes(Tail(recs))

MeshBytes(magic, vc, ic, idxs, recs) ==
    magic \o Filler(4) \o le16(vc) \o Filler(4) \o VertexBytes(vc) \o le32(ic)
    \o IndexBytes(idxs) \o le16(Len(recs)) \o SubMeshesBytes(recs)

SubMeshInput(start, length, shader, name_length, name) ==
    [start |-> start, length |-> length, shader |-> shader,
     name_length |-> name_length, name |-> name]

\* Sub-mesh records over an index buffer of one index: an empty range, the
\* whole buffer, an empty range at its end, a length that overflows the u32
\* sum, a start and a sum out of range, an unknown shader, a name that is too
\* long, a name that is not UTF-8.
SubMeshInputs ==
    { SubMeshInput(U32Zero, U32Zero, 0, 0, <<>>),
      SubMeshInput(U32Zero, U32One, 3, 1, <<65>>),
      SubMeshInput(U32One, U32Zero, 1, 2, <<195, 169>>),
      SubMeshInput(U32One, U32Max, 1, 0, <<>>),
      SubMeshInput(U32(3), U32Zero, 2, 0, <<>>),
      SubMeshInput(U32One, U32One, 0, 0, <<>>),
      SubMeshInput(U32Zero, U32Zero, 9, 0, <<>>),
      SubMeshInput(U32Zero, U32Zero, 0, MaxNameLength + 1, <<65>>),
      SubMeshInput(U32Zero, U32Zero, 2, 1, <<255>>) }

SeqsUpTo(S, n) == UNION { [1..k -> S] : k \in 0..n }

IndexValues == 0..MaxVertices \cup {U16Modulus - 1}

\* Index buffers of every content, no sub-mesh.
IndexFiles ==
    { MeshBytes(MeshMagic, vc, U32(Len(idxs)), idxs, <<>>) :
        vc \in 0..MaxVertices, idxs \in SeqsUpTo(IndexValues, MaxIndices) }

\* One vertex, one index, sub-mesh records of every kind.
SubMeshFiles ==
    { MeshBytes(MeshMagic, 1, U32One, <<0>>, recs) :
        recs \in SeqsUpTo(SubMeshInputs, MaxSubMeshes) }

\* A sub-mesh whose name has the greatest length accepted.
LongNameFiles ==
    { MeshBytes(MeshMagic, 0, U32Zero, <<>>,
                <<SubMeshInput(U32Zero, U32Zero, 1, MaxNameLength,
                               [k \in 1..MaxNameLength |-> 97])>>) }

WellFormedFile ==
    MeshBytes(MeshMagic, 1, U32One, <<0>>,
              <<SubMeshInput(U32Zero, U32One, 3, 1, <<65>>),
                SubMeshInput(U32One, U32Zero, 0, 0, <<>>)>>)

\* An index count with a high half: far more indices declared than present.
WideCountFile == MeshBytes(MeshMagic, 1, [lo |-> 1, hi |-> 1], <<0, 0>>, <<>>)

\* Every file cut short.
TruncatedFiles ==
    { SubSeq(f, 1, n) : f \in {WellFormedFile}, n \in 0..(Len(WellFormedFile) - 1) }
    \cup {WideCountFile}

BadMagics == { <<109, 101, 115, 105>>, <<77, 101, 115, 104>>, <<0, 0, 0, 0>> }

\* Files that do not start with "mesh", otherwise well formed or cut short.
BadMagicFiles ==
    { m \o SubSeq(WellFormedFile, 5, n) : m \in BadMagics,
        n \in {4, 5, Len(WellFormedFile)} }

\* Files with more than one defect: a record whose range is out of bounds and
\* that also has an unknown shader and a name too long, or a name too long, or
\* a name that is not UTF-8; an index out of range before such a record.
MultiDefectInputs ==
    { SubMeshInput(U32(3), U32Zero, 9, MaxNameLength + 1, <<255>>),
      SubMeshInput(U32(3), U32Zero, 0, MaxNameLength + 1, <<255>>),
      SubMeshInput(U32(3), U32Zero, 2, 1, <<255>>) }

MultiDefectFiles ==
    { MeshBytes(MeshMagic, 1, U32One, <<0>>, <<r>>) : r \in MultiDefectInputs }
    \cup { MeshBytes(MeshMagic, 1, U32One, <<1>>,
                     <<SubMeshInput(U32(3), U32Zero, 9, MaxNameLength + 1,
                                    <<255>>)>>) }

\* Names in and out of UTF-8: characters of 2, 3 and 4 bytes, one among
\* ASCII; an overlong encoding, a surrogate, a character cut short, a lone
\* continuation byte, a value above 10FFFF.
Names ==
    { <<65, 195, 169, 66>>, <<226, 130, 172>>, <<240, 159, 152, 128>>,
      <<192, 128>>, <<237, 160, 128>>, <<226, 130>>, <<128>>,
      <<244, 144, 128, 128>> }

\* No vertex, no index, one sub-mesh record with each of the names.
NameFiles ==
    { MeshBytes(MeshMagic, 0, U32Zero, <<>>,
                <<SubMeshInput(U32Zero, U32Zero, 0, Len(name), name)>>) :
        name \in Names }

Files ==
    IndexFiles \cup SubMeshFiles \cup LongNameFiles \cup TruncatedFiles
    \cup BadMagicFiles \cup MultiDefectFiles \cup NameFiles

Init ==
    /\ file \in Files
    /\ overflow_checks \in BOOLEAN
    /\ sync = Start
    /\ async = Start
    /\ previous = Start

Next == build_stormworks_mesh \/ async_build_stormworks_mesh

Spec == Init /\ [][Next]_vars

\* Bytes that follow the last sub-mesh record: one byte, the 12 reserved
\* bytes of a record, a whole record (one that build_sub_mesh would refuse).
Suffixes ==
    { <<0>>, Filler(Header8Bytes),
      SubMeshBytes(SubMeshInput(U32Zero, U32Zero, 9, 0, <<>>)) }

\* build_stormworks_mesh has returned; it is called again on a stream of the
\* same bytes followed by a suffix.
build_stormworks_mesh_on_longer_stream ==
    /\ sync.pc = "done"
    /\ previous = Start
    /\ \E suffix \in Suffixes : file' = file \o suffix
    /\ previous' = sync
    /\ sync' = Start
    /\ UNCHANGED <<overflow_checks, async>>

NextSuffix == build_stormworks_mesh \/ build_stormworks_mesh_on_longer_stream

SpecSuffix == Init /\ [][NextSuffix]_vars

(***************************************************************************)
(* What the claims read: the decoders, the file at a given offset, and the *)
(* offset a sequence of reads and skips has reached.                       *)
(***************************************************************************)
Decoders == {sync, async}

Done(st) == st.pc = "done"

Returned(st) == st.result.kind = "Ok"

FileU16(off) == file[off + 1] + 256 * file[off + 2]

FileU32(off) == [lo |-> FileU16(off), hi |-> FileU16(off + 2)]

HasMagic == Len(file) >= 4 /\ SubSeq(file, 1, 4) = <<109, 101, 115, 104>>

RECURSIVE OpsOffset(_, _)
OpsOffset(ops, k) == IF k = 0 THEN 0 ELSE OpsOffset(ops, k - 1) + ops[k][2]

\* The true sum a + b of two u32 is at most the u32 c.
TrueSumAtMost(a, b, c) ==
    LET lo == a.lo + b.lo
        hi == a.hi + b.hi + (lo \div 65536)
    IN hi < c.hi \/ (hi = c.hi /\ (lo % 65536) <= c.lo)

ShaderNames == <<"Opaque", "Transparent", "Emissive", "Lava">>

\* C1: in every Mesh returned, every sub-mesh has start <= index_count and
\* start + length <= index_count, the sum taken without wrapping.
C1_SubMeshRangesWithinIndexCount ==
    \A st \in Decoders :
        Returned(st) =>
            \A k \in 1..Len(st.result.mesh.sub_meshes) :
                LET sm == st.result.mesh.sub_meshes[k]
                    index_count == st.result.mesh.index_count
                IN /\ ~u32_lt(index_count, sm.index_buffer_start)
                   /\ TrueSumAtMost(sm.index_buffer_start, sm.index_buffer_length,
                                    index_count)

\* C2: in every Mesh returned, every index is below vertex_count and at most
\* 65535; no Mesh has indices and no vertices.
C2_IndicesBelowVertexCount ==
    \A st \in Decoders :
        Returned(st) =>
            LET mesh == st.result.mesh IN
            /\ \A k \in 1..Len(mesh.indices) :
                  /\ mesh.indices[k].hi = 0
                  /\ mesh.indices[k].lo <= 65535
                  /\ mesh.vertex_count.hi = 0
                  /\ mesh.indices[k].lo < mesh.vertex_count.lo
            /\ (mesh.vertex_count = U32Zero => mesh.indices = <<>>)

C2_Witness ==
    /\ Returned(sync)
    /\ Len(sync.result.mesh.indices) = MaxIndices
    /\ Returned(async)

\* C3: in every Mesh returned, the three sequences have the lengths the three
\* counts give, and the counts are the header fields of the file (u16 at 8, u32
\* after the vertices, u16 after the indices); a file with valid magic and all
\* three counts 0 decodes to a Mesh of three empty sequences.
C3_LengthsAreHeaderCounts ==
    \A st \in Decoders :
        /\ Returned(st) =>
              LET mesh == st.result.mesh
                  nv == Len(mesh.vertices)
                  ni == Len(mesh.indices)
              IN /\ mesh.vertex_count = [lo |-> nv, hi |-> 0]
                 /\ mesh.index_count = [lo |-> ni % 65536, hi |-> ni \div 65536]
                 /\ mesh.sub_mesh_count = [lo |-> Len(mesh.sub_meshes), hi |-> 0]
                 /\ nv = FileU16(8)
                 /\ mesh.index_count = FileU32(14 + 28 * nv)
                 /\ Len(mesh.sub_meshes) = FileU16(18 + 28 * nv + 2 * ni)
        /\ ( /\ Done(st)
             /\ HasMagic
             /\ Len(file) >= 20
             /\ FileU16(8) = 0
             /\ FileU32(14) = U32Zero
             /\ FileU16(18) = 0 ) =>
                st.result = Ok([vertex_count |-> U32Zero, vertices |-> <<>>,
                                index_count |-> U32Zero, indices |-> <<>>,
                                sub_mesh_count |-> U32Zero, sub_meshes |-> <<>>])

C3_Witness ==
    /\ Returned(sync)
    /\ Len(sync.result.mesh.vertices) >= 1
    /\ Len(sync.result.mesh.indices) >= 1
    /\ Len(sync.result.mesh.sub_meshes) = MaxSubMeshes

\* C4: on a file of at least 4 bytes that does not start with "mesh", a decoder
\* that has taken its first step has returned NotMesh, having read 4 bytes and
\* nothing else.
C4_BadMagicIsNotMesh ==
    \A st \in Decoders :
        (Len(file) >= 4 /\ ~HasMagic /\ st.pc # "magic") =>
            /\ Done(st)
            /\ st.result = NotMesh
            /\ st.ops = << <<"read", 4>> >>
            /\ st.cursor = 4

C4_Witness ==
    /\ Len(file) > 4
    /\ ~HasMagic
    /\ Done(sync)
    /\ Done(async)

CauseTypes ==
    { "io::Error", "IndexIndexOutOfBounds", "InvalidStormworksShaderType",
      "TooBigNameLength", "FromUtf8Error", "SubMeshIndexOutOfBounds" }

\* C5: a finished decode is a Mesh, NotMesh or CorruptFile(cause); NotMesh only
\* on 4 bytes read that are not "mesh"; a file of fewer than 4 bytes is
\* CorruptFile(stream failure); a failure carries no Mesh.
C5_OutcomeIsMeshNotMeshOrCorruptFile ==
    \A st \in Decoders :
        Done(st) =>
            /\ st.result.kind \in {"Ok", "NotMesh", "CorruptFile"}
            /\ (st.result.kind = "NotMesh" => (Len(file) >= 4 /\ ~HasMagic))
            /\ (st.result.kind = "CorruptFile" =>
                   st.result.cause.type \in CauseTypes)
            /\ (Len(file) < 4 => st.result = CorruptFile(IoError))
            /\ (st.result.kind # "Ok" => "mesh" \notin DOMAIN st.result)

\* The decoder's last step read the shader_id field: a 2-byte read that
\* follows the 2-byte skip.
JustReadShaderId(st) ==
    /\ Len(st.ops) >= 2
    /\ st.ops[Len(st.ops)] = <<"read", 2>>
    /\ st.ops[Len(st.ops) - 1] = <<"seek", 2>>

\* C6: once the shader_id field of a record has been read, a raw value 0..3
\* has become Opaque, Transparent, Emissive, Lava, and any other raw value
\* has ended the decode with InvalidStormworksShaderType of that value; no
\* Mesh holds another shader.
C6_UnknownShaderFails ==
    \A st \in Decoders :
        /\ JustReadShaderId(st) =>
              LET off == OpsOffset(st.ops, Len(st.ops) - 1) IN
              (off + 2 <= Len(file)) =>
                  LET raw == FileU16(off) IN
                  IF raw \in 0..3
                  THEN st.pc = "skip26" /\ st.shader_id = ShaderNames[raw + 1]
                  ELSE /\ Done(st)
                       /\ st.result =
                            CorruptFile([type |-> "InvalidStormworksShaderType",
                                         raw |-> raw])
        /\ Returned(st) =>
              \A k \in 1..Len(st.result.mesh.sub_meshes) :
                  \E n \in 1..4 :
                      st.result.mesh.sub_meshes[k].shader_id = ShaderNames[n]

C6_Witness ==
    /\ Done(sync)
    /\ sync.result =
          CorruptFile([type |-> "InvalidStormworksShaderType", raw |-> 9])
    /\ Len(sync.sub_meshes) >= 1

\* C7: when index number j of the file is the first that is >= vertex_count
\* and its bytes are present, no decoder reads past it, and a finished decode
\* is IndexIndexOutOfBounds with position j and bound vertex_count.
C7_FirstBadIndexIsReported ==
    \A st \in Decoders :
        (HasMagic /\ Len(file) >= 10) =>
            LET vc == FileU16(8)
                base == 18 + 28 * vc
            IN (Len(file) >= base) =>
                LET ic == FileU32(14 + 28 * vc)
                    present == (Len(file) - base) \div 2
                    n == IF ic.hi = 0 /\ ic.lo < present THEN ic.lo ELSE present
                IN \A j \in 0..(n - 1) :
                    ( /\ FileU16(base + 2 * j) >= vc
                      /\ \A k \in 0..(j - 1) : FileU16(base + 2 * k) < vc ) =>
                        /\ st.cursor <= base + 2 * j + 2
                        /\ Len(st.ops) <= 6 + vc + j
                        /\ Done(st) =>
                              /\ st.result =
                                    CorruptFile([type |-> "IndexIndexOutOfBounds",
                                                 index |-> [lo |-> j, hi |-> 0],
                                                 vertex_count |-> [lo |-> vc, hi |-> 0]])
                              /\ st.cursor = base + 2 * j + 2
                              /\ Len(st.ops) = 6 + vc + j

C7_Witness ==
    /\ Done(sync)
    /\ sync.result.kind = "CorruptFile"
    /\ sync.result.cause.type = "IndexIndexOutOfBounds"
    /\ sync.result.cause.index = U32One
    /\ sync.result.cause.vertex_count = U32One
    /\ FileU16(20 + 28) = 1

\* The sub-mesh records a decoder has range-checked: those it kept and, when
\* it stopped at the range check, the one it stopped on.
RangeChecked(st) ==
    LET kept == [k \in 1..Len(st.sub_meshes) |->
                    [start |-> st.sub_meshes[k].index_buffer_start,
                     length |-> st.sub_meshes[k].index_buffer_length]]
    IN IF /\ Done(st)
          /\ ~Returned(st)
          /\ Len(st.ops) >= 1
          /\ st.ops[Len(st.ops)] = <<"seek", 12>>
       THEN Append(kept, [start |-> st.index_buffer_start,
                          length |-> st.index_buffer_length])
       ELSE kept

OutOfRange(r, index_count) ==
    \/ u32_lt(index_count, r.start)
    \/ ~TrueSumAtMost(r.start, r.length, index_count)

\* C8: when sub-mesh number i is the first range-checked record whose range
\* is out of bounds, the decode has failed with SubMeshIndexOutOfBounds of
\* ordinal i, the offending value (start if start > index_count, else the sum
\* start + length) and the bound index_count.
C8_FirstBadRangeIsReported ==
    \A st \in Decoders :
        LET recs == RangeChecked(st) IN
        \A n \in 1..Len(recs) :
            ( /\ OutOfRange(recs[n], st.index_count)
              /\ \A m \in 1..(n - 1) : ~OutOfRange(recs[m], st.index_count) ) =>
                /\ Done(st)
                /\ st.result.kind = "CorruptFile"
                /\ st.result.cause.type = "SubMeshIndexOutOfBounds"
                /\ st.result.cause.submesh_id = [lo |-> n - 1, hi |-> 0]
                /\ st.result.cause.relevant_bound = st.index_count
                /\ IF u32_lt(st.index_count, recs[n].start)
                   THEN st.result.cause.index = recs[n].start
                   ELSE /\ recs[n].start.hi + recs[n].length.hi
                             + ((recs[n].start.lo + recs[n].length.lo) \div 65536)
                             < 65536
                        /\ st.result.cause.index.lo =
                             (recs[n].start.lo + recs[n].length.lo) % 65536
                        /\ st.result.cause.index.hi =
                             recs[n].start.hi + recs[n].length.hi
                             + ((recs[n].start.lo + recs[n].length.lo) \div 65536)

\* C9: a skip over fewer bytes than remain is a stream failure; so a Mesh is
\* returned only when every byte read or skipped was in the file: a file that
\* ends inside the 12 reserved bytes of its last record is not a Mesh.
C9_ShortSkipIsNotAMesh ==
    \A st \in Decoders : Returned(st) => st.cursor <= Len(file)

\* C10: when both decoders have finished, they have performed the same reads
\* and skips and hold the same outcome.
C10_BlockingAndSuspendingAgree ==
    (Done(sync) /\ Done(async)) =>
        /\ sync.ops = async.ops
        /\ sync.result = async.result

C10_Witness ==
    /\ Done(sync)
    /\ Done(async)
    /\ Returned(async)
    /\ Len(async.result.mesh.sub_meshes) = MaxSubMeshes
    /\ async.cursor = Len(file)

\* The offset at which sub-mesh record k (from 1) starts when the first starts
\* at `base`: each record is 52 bytes and its name, whose length is the u16
\* 38 bytes into the record.
RECURSIVE RecordOffset(_, _)
RecordOffset(base, k) ==
    IF k = 1 THEN base
    ELSE LET p == RecordOffset(base, k - 1) IN p + 52 + FileU16(p + 38)

FileBytes(off, n) == SubSeq(file, off + 1, off + n)

\* C11: a Mesh returned holds the fields of the file at the documented
\* offsets: vertex_count the u16 at 8, vertex k the 28 bytes at 14 + 28k,
\* index_count the u32 at 14 + 28*vertex_count, index j the u16 at
\* 18 + 28*vertex_count + 2j, sub_mesh_count the u16 after the last index, and
\* of the record at p: start the u32 at p, length the u32 at p + 4, shader_id
\* the u16 at p + 10, name_length_bytes the u16 at p + 38, name the bytes at
\* p + 40, the next record at p + 52 + name_length_bytes; the cursor ends at
\* 20 + 28*vertex_count + 2*index_count + the sum of 52 + name_length_bytes.
C11_FieldsAtDocumentedOffsets ==
    \A st \in Decoders :
        Returned(st) =>
            LET mesh == st.result.mesh
                vc == FileU16(8)
                ic == Len(mesh.indices)
                base == 20 + 28 * vc + 2 * ic
            IN /\ mesh.vertex_count = [lo |-> vc, hi |-> 0]
               /\ Len(mesh.vertices) = vc
               /\ \A k \in 0..(vc - 1) :
                     LET o == 14 + 28 * k
                         v == mesh.vertices[k + 1]
                     IN /\ v.position = <<FileBytes(o, 4), FileBytes(o + 4, 4),
                                          FileBytes(o + 8, 4)>>
                        /\ v.color = FileBytes(o + 12, 4)
                        /\ v.normal = <<FileBytes(o + 16, 4), FileBytes(o + 20, 4),
                                        FileBytes(o + 24, 4)>>
               /\ mesh.index_count = FileU32(14 + 28 * vc)
               /\ mesh.index_count = [lo |-> ic, hi |-> 0]
               /\ \A j \in 0..(ic - 1) :
                     mesh.indices[j + 1] =
                         [lo |-> FileU16(18 + 28 * vc + 2 * j), hi |-> 0]
               /\ mesh.sub_mesh_count =
                     [lo |-> FileU16(18 + 28 * vc + 2 * ic), hi |-> 0]
               /\ Len(mesh.sub_meshes) = FileU16(18 + 28 * vc + 2 * ic)
               /\ \A k \in 1..Len(mesh.sub_meshes) :
                     LET p == RecordOffset(base, k)
                         sm == mesh.sub_meshes[k]
                         n == FileU16(p + 38)
                     IN /\ sm.index_buffer_start = FileU32(p)
                        /\ sm.index_buffer_length = FileU32(p + 4)
                        /\ FileU16(p + 10) \in 0..3
                        /\ sm.shader_id = ShaderNames[FileU16(p + 10) + 1]
                        /\ sm.name_length_bytes = n
                        /\ sm.name = FileBytes(p + 40, n)
               /\ st.cursor = RecordOffset(base, Len(mesh.sub_meshes) + 1)

\* A Mesh of a vertex, an index and two records, the first with a name.
C11_Witness ==
    /\ Returned(sync)
    /\ Len(sync.result.mesh.vertices) = 1
    /\ Len(sync.result.mesh.indices) = 1
    /\ Len(sync.result.mesh.sub_meshes) = 2
    /\ sync.result.mesh.sub_meshes[1].name_length_bytes > 0
    /\ sync.result.mesh.sub_meshes[2].index_buffer_start = U32One

\* C12: when build_stormworks_mesh has returned a Mesh, or an error other
\* than a stream failure, on a file, the call on the same bytes followed by
\* any suffix performs the same reads and skips, stops at the same offset and
\* returns the same Mesh or error; the reads and skips of a call that returns
\* a Mesh end with the last sub-mesh record (8 per record after the 6 and one
\* per vertex and index that come before).
C12_SuffixDoesNotChangeResult ==
    /\ ( /\ previous # Start
         /\ previous.result # CorruptFile(IoError)
         /\ Done(sync) ) =>
            /\ sync.result = previous.result
            /\ sync.ops = previous.ops
            /\ sync.cursor = previous.cursor
    /\ Returned(sync) =>
          /\ Len(sync.ops) = 6 + Len(sync.vertices) + Len(sync.indices)
                               + 8 * Len(sync.sub_meshes)
          /\ sync.cursor = OpsOffset(sync.ops, Len(sync.ops))

\* The second call has returned the Mesh of two records again, with bytes of
\* the file left unread.
C12_Witness ==
    /\ previous # Start
    /\ Returned(previous)
    /\ Len(previous.result.mesh.sub_meshes) = MaxSubMeshes
    /\ Returned(sync)
    /\ sync.cursor < Len(file)

\* The decoder's last step read the name_length_bytes field: a 2-byte read
\* that follows the 26-byte skip.
JustReadNameLength(st) ==
    /\ Len(st.ops) >= 2
    /\ st.ops[Len(st.ops)] = <<"read", 2>>
    /\ st.ops[Len(st.ops) - 1] = <<"seek", 26>>

\* C13: once the name_length_bytes field of a record has been read, a value
\* above 1000 has ended the decode with TooBigNameLength, the cursor just past
\* the 2-byte field, and a value up to 1000 (1000 included) is kept and the
\* decode goes on to the name; a decode that ended with TooBigNameLength made
\* no read or skip after that field.
C13_NameTooLongStopsAtLengthField ==
    \A st \in Decoders :
        /\ JustReadNameLength(st) =>
              LET off == OpsOffset(st.ops, Len(st.ops) - 1) IN
              (off + 2 <= Len(file)) =>
                  LET n == FileU16(off) IN
                  IF n > 1000
                  THEN /\ Done(st)
                       /\ st.result = CorruptFile([type |-> "TooBigNameLength"])
                       /\ st.cursor = off + 2
                       /\ st.name = <<>>
                  ELSE /\ st.pc = "name"
                       /\ st.name_length_bytes = n
        /\ ( /\ Done(st)
             /\ st.result = CorruptFile([type |-> "TooBigNameLength"]) ) =>
                /\ JustReadNameLength(st)
                /\ st.cursor = OpsOffset(st.ops, Len(st.ops))
                /\ st.cursor <= Len(file)
                /\ FileU16(st.cursor - 2) > 1000

\* The second record declared a name of 1001 bytes: the decode has stopped
\* with the name byte and the 12 reserved bytes of that record unread.
C13_Witness ==
    /\ Done(sync)
    /\ sync.result = CorruptFile([type |-> "TooBigNameLength"])
    /\ Len(sync.sub_meshes) = 1
    /\ FileU16(sync.cursor - 2) = 1001
    /\ Len(file) = sync.cursor + 13

\* Well-formed UTF-8, from the definition: every character is a scalar value
\* up to 10FFFF, not a surrogate, in the shortest of the four encodings.
Utf8Width(b) ==
    CASE b \in 0..127 -> 1
      [] b \in 192..223 -> 2
      [] b \in 224..239 -> 3
      [] b \in 240..247 -> 4
      [] OTHER -> 0

RECURSIVE Utf8Scalar(_, _, _, _)
\* The scalar value of the w bytes at s[i], acc its lead bits; -1 when a byte
\* is missing or is not a continuation byte.
Utf8Scalar(s, i, w, acc) ==
    IF w = 0 THEN acc
    ELSE IF i > Len(s) \/ s[i] \notin 128..191 THEN -1
    ELSE Utf8Scalar(s, i + 1, w - 1, acc * 64 + (s[i] - 128))

RECURSIVE WellFormedFrom(_, _)
WellFormedFrom(s, i) ==
    IF i > Len(s) THEN TRUE
    ELSE LET w == Utf8Width(s[i])
             lead == CASE w = 1 -> s[i] [] w = 2 -> s[i] - 192
                       [] w = 3 -> s[i] - 224 [] OTHER -> s[i] - 240
             v == Utf8Scalar(s, i + 1, w - 1, lead)
             least == CASE w = 1 -> 0 [] w = 2 -> 128 [] w = 3 -> 2048
                        [] OTHER -> 65536
         IN /\ w > 0
            /\ v >= least
            /\ v <= 1114111
            /\ v \notin 55296..57343
            /\ WellFormedFrom(s, i + w)

WellFormedUtf8(s) ==
    (\A k \in 1..Len(s) : s[k] < 128) \/ WellFormedFrom(s, 1)

\* The read or skip that comes k-th in the order magic, header, vertex_count,
\* header, vertices, index_count, indices, sub_mesh_count, sub-meshes, for the
\* counts the decoder holds; each sub-mesh record is start, length, 2 skipped,
\* shader_id, 26 skipped, name_length_bytes, name, 12 skipped.
ExpectedOp(st, k) ==
    LET vc == st.vertex_count.lo
        ic == IF st.index_count.hi = 0 THEN st.index_count.lo ELSE 65536
        r == k - (6 + vc + ic)
    IN CASE k = 1 -> <<"read", 4>>
         [] k = 2 -> <<"seek", 4>>
         [] k = 3 -> <<"read", 2>>
         [] k = 4 -> <<"seek", 4>>
         [] k \in 5..(4 + vc) -> <<"read", 28>>
         [] k = 5 + vc -> <<"read", 4>>
         [] k \in (6 + vc)..(5 + vc + ic) -> <<"read", 2>>
         [] k = 6 + vc + ic -> <<"read", 2>>
         [] OTHER ->
              IF (r - 1) \div 8 >= st.sub_mesh_count.lo
                 \/ (r - 1) \div 8 # Len(st.sub_meshes)
              THEN <<"none", 0>>
              ELSE <<<<"read", 4>>, <<"read", 4>>, <<"seek", 2>>, <<"read", 2>>,
                     <<"seek", 26>>, <<"read", 2>>,
                     <<"read", st.name_length_bytes>>, <<"seek", 12>>>>[
                        ((r - 1) % 8) + 1]

\* What the record at offset p of the file fails on first, its fields taken
\* in the order of the layout: a field that is missing, an unknown shader, a
\* name too long, a name that is not UTF-8; "range" when none of these.
FirstDefect(p) ==
    LET n == FileU16(p + 38) IN
    IF p + 12 > Len(file) THEN "io::Error"
    ELSE IF FileU16(p + 10) \notin 0..3 THEN "InvalidStormworksShaderType"
    ELSE IF p + 40 > Len(file) THEN "io::Error"
    ELSE IF n > 1000 THEN "TooBigNameLength"
    ELSE IF n > 0 /\ p + 40 + n > Len(file) THEN "io::Error"
    ELSE IF ~WellFormedUtf8(FileBytes(p + 40, n)) THEN "FromUtf8Error"
    ELSE "range"

\* A decode that failed reports the earliest step that fails: an index out of
\* range with no sub-mesh byte read; inside a record, the first defect of the
\* record, after 4, 6, 7 reads and skips of the record for an unknown shader,
\* a name too long, a name not UTF-8, and after all 8 for its range, earlier
\* records having passed their range checks.
EarliestFailure(st) ==
    (Done(st) /\ ~Returned(st) /\ st.result.kind # "NotMesh") =>
        LET before == 6 + Len(st.vertices) + Len(st.indices)
            k == Len(st.sub_meshes)
            m == Len(st.ops) - before - 8 * k
            type == IF st.result.kind = "Panic" THEN "range"
                    ELSE IF st.result.cause.type = "SubMeshIndexOutOfBounds"
                         THEN "range" ELSE st.result.cause.type
        IN IF m <= 0
           THEN /\ type \in {"io::Error", "IndexIndexOutOfBounds"}
                /\ k = 0
           ELSE LET p == OpsOffset(st.ops, before + 8 * k) IN
                /\ m \in 1..8
                /\ type = FirstDefect(p)
                /\ type = "InvalidStormworksShaderType" => m = 4
                /\ type = "TooBigNameLength" => m = 6
                /\ type = "FromUtf8Error" => m = 7
                /\ type = "range" =>
                      /\ m = 8
                      /\ st.cursor = p + 52 + FileU16(p + 38)
                      /\ st.result.kind = "CorruptFile" =>
                            st.result.cause.submesh_id = [lo |-> k, hi |-> 0]

\* One step of a decoder from a to b.
OrderedStep(a, b) ==
    (a # b) =>
        /\ b.cursor >= a.cursor
        /\ \/ b.ops = a.ops
           \/ /\ Len(b.ops) = Len(a.ops) + 1
              /\ SubSeq(b.ops, 1, Len(a.ops)) = a.ops
              /\ b.ops[Len(b.ops)] = ExpectedOp(b, Len(b.ops))
        /\ Len(b.sub_meshes) >= Len(a.sub_meshes)
        /\ Len(b.ops) <= 6 + b.vertex_count.lo + Len(b.indices) + 1
                           + 8 * (Len(b.sub_meshes) + 1)
        /\ EarliestFailure(b)

\* C14: every step of a decoder moves the cursor forward or not at all and
\* makes the next read or skip of the order magic, vertex_count, vertices,
\* index_count, indices, sub_mesh_count, sub-meshes; no byte of record i + 1
\* is read before record i has passed its range check; and a failure is that
\* of the earliest failing step: an index out of range before any sub-mesh
\* defect, and within a record unknown shader, name too long, invalid UTF-8,
\* range out of bounds, the range checked once the whole record is consumed.
C14_StepsInOrderEarliestFailure ==
    [][OrderedStep(sync, sync') /\ OrderedStep(async, async')]_vars

\* The record has an unknown shader, a name too long and a range out of
\* bounds: the decode has ended on the shader.
C14_Witness ==
    /\ Done(sync)
    /\ sync.result.kind = "CorruptFile"
    /\ sync.result.cause.type = "InvalidStormworksShaderType"
    /\ LET p == OpsOffset(sync.ops, Len(sync.ops) - 4) IN
       /\ FileU16(p + 38) > 1000
       /\ u32_gt(FileU32(p), sync.index_count)

\* The decoder's last step read the name of a record: a read that follows
\* the 2-byte read of name_length_bytes after the 26-byte skip.
JustReadName(st) ==
    /\ Len(st.ops) >= 3
    /\ st.ops[Len(st.ops)][1] = "read"
    /\ st.ops[Len(st.ops) - 1] = <<"read", 2>>
    /\ st.ops[Len(st.ops) - 2] = <<"seek", 26>>

\* C15: in every Mesh returned, the name of every sub-mesh is the
\* name_length_bytes bytes of the file that follow the length field, at most
\* 1000 of them, and they are well-formed UTF-8; once the name bytes of a
\* record have been read, bytes that are not well-formed UTF-8 have ended the
\* decode with FromUtf8Error, and well-formed ones are kept as the name.
C15_NameIsLengthBytesOfUtf8 ==
    \A st \in Decoders :
        /\ Returned(st) =>
              LET mesh == st.result.mesh
                  base == 20 + 28 * Len(mesh.vertices) + 2 * Len(mesh.indices)
              IN \A k \in 1..Len(mesh.sub_meshes) :
                    LET sm == mesh.sub_meshes[k]
                        p == RecordOffset(base, k)
                    IN /\ Len(sm.name) = sm.name_length_bytes
                       /\ sm.name_length_bytes <= 1000
                       /\ sm.name_length_bytes = FileU16(p + 38)
                       /\ sm.name = FileBytes(p + 40, sm.name_length_bytes)
                       /\ WellFormedUtf8(sm.name)
        /\ JustReadName(st) =>
              LET off == OpsOffset(st.ops, Len(st.ops) - 1)
                  n == FileU16(off - 2)
              IN (n = 0 \/ off + n <= Len(file)) =>
                    IF WellFormedUtf8(FileBytes(off, n))
                    THEN /\ st.pc = "header8"
                         /\ st.name = FileBytes(off, n)
                         /\ st.name_length_bytes = n
                    ELSE /\ Done(st)
                         /\ st.result = CorruptFile([type |-> "FromUtf8Error"])

\* A Mesh whose sub-mesh has a name with characters of more than one byte.
C15_Witness ==
    /\ Returned(sync)
    /\ Len(sync.result.mesh.sub_meshes) = 1
    /\ sync.result.mesh.sub_meshes[1].name_length_bytes = 4
    /\ sync.result.mesh.sub_meshes[1].name[1] >= 128

=============================================================================
